---- MODULE Spec2Model ----
(***************************************************************************)
(* A model of code_indexer: the syntax-aware chunker (code_splitter.py),   *)
(* the Merkle directory tree (merkle_tree.py), the hybrid index            *)
(* (hybrid_search.py) and the debounced watcher (watcher.py).              *)
(*                                                                         *)
(* Each subsystem has a specification of its own (SpecChunk, SpecMerkle,   *)
(* SpecIndex for the index's writers, SpecSearch for a query thread beside *)
(* them, SpecWatch); a specification leaves the variables of the           *)
(* subsystems it does not drive at their initial values.                   *)
(***************************************************************************)
EXTENDS Integers, Sequences, FiniteSets, TLC

VARIABLES
    \* ---- chunker (code_splitter.py) ----
    ptree,      \* the parse tree: node id -> [start, end, parent, type]; node 1 is the root
    buflen,     \* len(source_code)
    source,     \* the text split: its bytes, "a" or "\n"
    cfg,        \* the CodeSplitter's constructor parameters
    cres,       \* what the split returned: [status, chunks, texts, meta, how]
    \* ---- filesystem and Merkle tree (merkle_tree.py) ----
    fs,         \* the files under the root: file path -> content (0: no such file)
    writes,     \* how many times the filesystem was changed
    tree,       \* a MerkleTree's nodes: node path -> [hash_value, is_file]
    other,      \* a second MerkleTree over the same root
    built,      \* the nodes of tree as its last build left them
    hist,       \* what happened since tree was built: [phase, path]
    changes,    \* the last get_changes: [of, out]
    \* ---- hybrid index (hybrid_search.py) ----
    store,      \* the points of collection "code-index"
    upd,        \* the update_index call in flight, or the last one
    seen,       \* what a search saw and returned, while the store is as it saw it
    runs,       \* whether index_files ran (start() runs it, once)
    \* ---- watcher (watcher.py) ----
    now,             \* time.time(), in ticks
    pending_updates, \* the handler's set of paths
    debounce_timer,  \* _debounce_timer: [is_none, t]
    calls,           \* path -> how many times update_index was invoked for it
    events,          \* how many events the observer delivered
    evlog,           \* the qualifying events handled: the first and the last
    flushlog,        \* the last qualifying event's flush: [flushed, pending, invoked, failed]
    \* ---- watcher lifecycle (watcher.py, CodeIndexWatcher) ----
    instance,     \* CodeIndexWatcher._instance: 0 is None, else the object made
    thr,          \* each constructing thread's position in CodeIndexWatcher(...)
    initialized,  \* whether the instance has the attribute _initialized
    inits,        \* how many times the body of __init__ was entered
    observer,     \* self.observer: "unset", "new", "started" or "stopped"
    running,      \* self._running: "unset", TRUE or FALSE
    handlers,     \* whether signal_handler is installed for SIGINT and SIGTERM
    hooks,        \* how many times atexit.register(self.stop) ran
    proc,         \* the process: [phase, left] (hooks left to run at exit)
    stops,        \* caller -> how many times the body of stop() was executed
    stop_log,     \* the last stop(): [state, raised], state the lifecycle state it met
    \* ---- the handler's pending set under two threads (watcher.py) ----
    at,           \* thread -> its position in _schedule_update or _process_updates
    unpassed,     \* the pending paths not passed to update_index since they were added
    dropped       \* the paths cleared from the pending set without having been passed

chunkVars == <<ptree, buflen, source, cfg, cres>>
merkleVars == <<fs, writes, tree, other, built, hist, changes>>
indexVars == <<store, upd, seen, runs>>
watchVars == <<now, pending_updates, debounce_timer, calls, events, evlog, flushlog>>
lifeVars == <<instance, thr, initialized, inits, observer, running, handlers, hooks,
              proc, stops, stop_log>>
raceVars == <<at, unpassed, dropped>>

vars == <<ptree, buflen, source, cfg, cres, fs, writes, tree, other, built, hist, changes,
          store, upd, seen, runs,
          now, pending_updates, debounce_timer, calls, events, evlog, flushlog,
          instance, thr, initialized, inits, observer, running, handlers, hooks,
          proc, stops, stop_log,
          at, unpassed, dropped>>

(***************************************************************************)
(* Bounds of the model.                                                    *)
(***************************************************************************)
MaxBuf == 4          \* longest source buffer, in bytes
MaxNodes == 4        \* most nodes of a parse tree, the root included
MaxTarget == 2       \* largest target_chunk_tokens a splitter is built with
MaxContent == 3      \* file contents are 1..MaxContent
MaxLimit == 1        \* largest limit a search is made with
MaxTime == 3         \* the clock stops at MaxTime ticks
MaxEvents == 3       \* most events the observer delivers
TicksPerSecond == 2  \* ticks of the clock in a second
MaxWrites == 2       \* most changes made to the filesystem
MaxText == 3         \* longest text split for its chunks' texts and metadata

Max(a, b) == IF a >= b THEN a ELSE b
Min(a, b) == IF a <= b THEN a ELSE b

(***************************************************************************)
(* Span (code_splitter.py:24-64): a half-open byte interval.               *)
(***************************************************************************)
Span(s, e) == [start |-> s, end |-> e]

\* Span.__len__
SpanLen(sp) == sp.end - sp.start

\* Span.__add__ with a Span operand: Span(a, b) + Span(c, d) = Span(a, d)
SpanAdd(a, b) == Span(a.start, b.end)

\* TokenCounter.count_chunk: the tokenizer is tiktoken's; the model's tokenizer
\* gives one token per byte of the extracted slice (s[start:end] is empty when
\* end <= start).
count_chunk(sp) == Max(sp.end - sp.start, 0)

(***************************************************************************)
(* The parse tree.  Children of a node are the nodes naming it as parent,  *)
(* in id order, which is their left-to-right order (AddNode appends to the *)
(* right of the existing siblings).                                        *)
(***************************************************************************)
NodeTypes == {"stmt", "ERROR"}

Children(t, n) == SelectSeq([i \in 1..Len(t) |-> i], LAMBDA i : t[i].parent = n)

\* An over-long chunk: MaxChunkLengthExceededError
TooLong(c, len) == len > c.max_chunk_tokens /\ c.enforce_max_chunk_tokens

(***************************************************************************)
(* chunk_tree, pass 1: chunk_node.  The result is [chunks, raised]; raised *)
(* stands for MaxChunkLengthExceededError leaving the recursion.           *)
(***************************************************************************)
RECURSIVE chunk_node(_, _, _)
RECURSIVE chunk_children(_, _, _, _, _)

\* The loop over node.children from position i on, with the chunks emitted so
\* far and the current chunk in acc.
chunk_children(t, c, kids, i, acc) ==
    IF acc.raised \/ i > Len(kids) THEN acc
    ELSE
        LET child == t[kids[i]]
            childSpan == Span(child.start, child.end)
            child_token_len == count_chunk(childSpan)
            child_and_current_token_len == count_chunk(childSpan) + count_chunk(acc.current)
        IN  IF child_token_len > c.target_chunk_tokens
            THEN IF TooLong(c, child_token_len)
                 THEN [acc EXCEPT !.raised = TRUE]
                 ELSE LET sub == chunk_node(t, c, kids[i])
                      IN  chunk_children(t, c, kids, i + 1,
                              [chunks |-> Append(acc.chunks, acc.current) \o sub.chunks,
                               current |-> Span(child.end, child.end),
                               raised |-> sub.raised])
            ELSE IF child_and_current_token_len > c.target_chunk_tokens
            THEN IF TooLong(c, child_and_current_token_len)
                 THEN [acc EXCEPT !.raised = TRUE]
                 ELSE chunk_children(t, c, kids, i + 1,
                          [chunks |-> Append(acc.chunks, acc.current),
                           current |-> childSpan,
                           raised |-> FALSE])
            ELSE chunk_children(t, c, kids, i + 1,
                     [acc EXCEPT !.current = SpanAdd(acc.current, childSpan)])

chunk_node(t, c, n) ==
    LET done == chunk_children(t, c, Children(t, n), 1,
                    [chunks |-> <<>>,
                     current |-> Span(t[n].start, t[n].start),
                     raised |-> FALSE])
    IN  IF done.raised THEN [chunks |-> done.chunks, raised |-> TRUE]
        ELSE IF TooLong(c, count_chunk(done.current))
        THEN [chunks |-> done.chunks, raised |-> TRUE]
        ELSE [chunks |-> Append(done.chunks, done.current), raised |-> FALSE]

(***************************************************************************)
(* chunk_tree, pass 2: drop the empty chunks and fill the gaps.            *)
(***************************************************************************)
FilterEmpty(chunks) == SelectSeq(chunks, LAMBDA ch : SpanLen(ch) > 0)

\* chunks[0].start = 0; prev.end = curr.start for each adjacent pair; the last
\* chunk's end = len(source_code).  For two chunks or more.
FillGaps(chunks, n) ==
    [i \in 1..Len(chunks) |->
        Span(IF i = 1 THEN 0 ELSE chunks[i].start,
             IF i = Len(chunks) THEN n ELSE chunks[i + 1].start)]

(***************************************************************************)
(* chunk_tree, pass 3: coalescing.  acc is [new_chunks, agg, agg_len, how], *)
(* how naming the branch that appended each of new_chunks.                 *)
(***************************************************************************)
\* An extend branch that appends the aggregate whatever its length.
EmitAlways(agg_len, coalesce) == TRUE

\* The extend branch's test: if aggregated_chunk_token_len > self.coalesce
ExtendEmits(agg_len, coalesce) == agg_len > coalesce

RECURSIVE Coalesce(_, _, _, _)
Coalesce(c, chunks, i, acc) ==
    IF i > Len(chunks) THEN acc
    ELSE
        LET chunk == chunks[i]
            chunk_token_len == count_chunk(chunk)
        IN  IF chunk_token_len > c.target_chunk_tokens
            THEN Coalesce(c, chunks, i + 1,
                     [new_chunks |-> acc.new_chunks \o <<acc.agg, chunk>>,
                      agg |-> Span(chunk.end, chunk.end),
                      agg_len |-> 0,
                      how |-> acc.how \o <<"over", "over">>])
            ELSE IF acc.agg_len + chunk_token_len > c.target_chunk_tokens
            THEN Coalesce(c, chunks, i + 1,
                     [new_chunks |-> Append(acc.new_chunks, acc.agg),
                      agg |-> Span(chunk.start, chunk.end),
                      agg_len |-> chunk_token_len,
                      how |-> Append(acc.how, "replace")])
            ELSE LET agg == SpanAdd(acc.agg, chunk)
                     agg_len == acc.agg_len + chunk_token_len
                 IN  IF ExtendEmits(agg_len, c.coalesce)
                     THEN Coalesce(c, chunks, i + 1,
                              [new_chunks |-> Append(acc.new_chunks, agg),
                               agg |-> Span(chunk.end, chunk.end),
                               agg_len |-> 0,
                               how |-> Append(acc.how, "extend")])
                     ELSE Coalesce(c, chunks, i + 1,
                              [new_chunks |-> acc.new_chunks,
                               agg |-> agg,
                               agg_len |-> agg_len,
                               how |-> acc.how])

CoalesceStart == [new_chunks |-> <<>>, agg |-> Span(0, 0), agg_len |-> 0, how |-> <<>>]

CoalesceAll(c, chunks) ==
    LET acc == Coalesce(c, chunks, 1, CoalesceStart)
    IN  IF SpanLen(acc.agg) > 0 THEN Append(acc.new_chunks, acc.agg)
        ELSE acc.new_chunks

\* The branch that appended each chunk CoalesceAll returns ("rest": the
\* aggregate left after the loop).
CoalesceHow(c, chunks) ==
    LET acc == Coalesce(c, chunks, 1, CoalesceStart)
    IN  IF SpanLen(acc.agg) > 0 THEN Append(acc.how, "rest") ELSE acc.how

(***************************************************************************)
(* chunk_tree: [status, chunks], status "ok" or "raise".                   *)
(***************************************************************************)
chunk_tree(t, c, n) ==
    LET first == chunk_node(t, c, 1)
        chunks == FilterEmpty(first.chunks)
    IN  IF first.raised THEN [status |-> "raise", chunks |-> <<>>]
        ELSE IF Len(chunks) = 0 THEN [status |-> "ok", chunks |-> <<>>]
        ELSE IF Len(chunks) < 2
        THEN [status |-> "ok", chunks |-> <<Span(0, SpanLen(chunks[1]))>>]
        ELSE [status |-> "ok", chunks |-> CoalesceAll(c, FillGaps(chunks, n))]

(***************************************************************************)
(* The texts and the metadata of the chunks.  A text is the sequence of    *)
(* its bytes; a node's text is the slice of the source under its span.     *)
(***************************************************************************)
\* ''.join()
RECURSIVE join(_)
join(sq) == IF sq = <<>> THEN <<>> ELSE Head(sq) \o join(Tail(sq))

Newline == "\n"

Bytes == {"a", Newline}

\* s.split("\n")
RECURSIVE split_lines(_)
split_lines(s) ==
    IF \A i \in 1..Len(s) : s[i] # Newline THEN <<s>>
    ELSE LET i == CHOOSE k \in 1..Len(s) :
                      s[k] = Newline /\ \A m \in 1..(k - 1) : s[m] # Newline
         IN  <<SubSeq(s, 1, i - 1)>> \o split_lines(SubSeq(s, i + 1, Len(s)))

\* "\n".join(lines)
RECURSIVE join_lines(_)
join_lines(lines) ==
    IF lines = <<>> THEN <<>>
    ELSE IF Len(lines) = 1 THEN lines[1]
    ELSE lines[1] \o <<Newline>> \o join_lines(Tail(lines))

\* Span.extract_lines(s): lines[self.start : self.end], joined, with a
\* newline added when the selection does not reach the last line.
extract_lines(sp, s) ==
    LET lines == split_lines(s)
        selected_lines == SubSeq(lines, sp.start + 1, Min(sp.end, Len(lines)))
        joined == join_lines(selected_lines)
    IN  IF sp.end < Len(lines) THEN joined \o <<Newline>> ELSE joined

\* Span.extract(s): s[self.start : self.end]
extract(sp, s) == SubSeq(s, sp.start + 1, Min(sp.end, Len(s)))

\* split_and_keep_newline: re.split(b"(?<=\n)", byte_str)
RECURSIVE split_and_keep_newline(_)
split_and_keep_newline(s) ==
    IF \A i \in 1..Len(s) : s[i] # Newline THEN <<s>>
    ELSE LET i == CHOOSE k \in 1..Len(s) :
                      s[k] = Newline /\ \A m \in 1..(k - 1) : s[m] # Newline
         IN  <<SubSeq(s, 1, i)>> \o split_and_keep_newline(SubSeq(s, i + 1, Len(s)))

\* get_line_number(index, source_code): the loop from line k on
RECURSIVE LineLoop(_, _, _, _)
LineLoop(pieces, k, total_chars, index) ==
    IF k > Len(pieces) THEN Len(pieces)
    ELSE IF total_chars + Len(pieces[k]) > index THEN k - 1
    ELSE LineLoop(pieces, k + 1, total_chars + Len(pieces[k]), index)

get_line_number(index, s) == LineLoop(split_and_keep_newline(s), 1, 0, index)

\* root_node.descendant_for_byte_range(s, e), from node n down: the walk
\* goes into the child that spans the range, and stops where none does.
RECURSIVE descendant_for_byte_range(_, _, _, _)
descendant_for_byte_range(t, n, s, e) ==
    LET spanning == SelectSeq(Children(t, n),
                        LAMBDA k : t[k].start <= s /\ e <= t[k].end)
    IN  IF spanning = <<>> THEN n
        ELSE descendant_for_byte_range(t, spanning[1], s, e)

\* _extract_symbols(node): the name of a function or class definition is its
\* first identifier child's text; then the children, in order.
RECURSIVE extract_symbols(_, _, _)
extract_symbols(t, s, n) ==
    LET kids == Children(t, n)
        ids == SelectSeq(kids, LAMBDA k : t[k].type = "identifier")
        own == IF t[n].type \in {"function_definition", "class_definition"}
                  /\ ids # <<>>
               THEN <<extract(Span(t[ids[1]].start, t[ids[1]].end), s)>>
               ELSE <<>>
    IN  own \o join([i \in 1..Len(kids) |-> extract_symbols(t, s, kids[i])])

\* _extract_imports(node)
RECURSIVE extract_imports(_, _, _)
extract_imports(t, s, n) ==
    LET kids == Children(t, n)
        own == IF t[n].type \in {"import_statement", "import_from_statement"}
               THEN <<extract(Span(t[n].start, t[n].end), s)>>
               ELSE <<>>
    IN  own \o join([i \in 1..Len(kids) |-> extract_imports(t, s, kids[i])])

ChunkMetadata(start_line, end_line, symbols, imports) ==
    [start_line |-> start_line, end_line |-> end_line,
     symbols |-> symbols, imports |-> imports]

\* chunk_tree's metadata, one per chunk it returns: ChunkMetadata(0, 1,
\* language) for the only chunk of the early return, else the lines of the
\* chunk's ends and the symbols and imports under the node found for its span.
chunk_metadata(t, c, s) ==
    LET chunks == FilterEmpty(chunk_node(t, c, 1).chunks)
    IN  IF Len(chunks) = 0 THEN <<>>
        ELSE IF Len(chunks) < 2 THEN <<ChunkMetadata(0, 1, <<>>, <<>>)>>
        ELSE LET new_chunks == CoalesceAll(c, FillGaps(chunks, Len(s)))
             IN  [i \in 1..Len(new_chunks) |->
                     LET node == descendant_for_byte_range(
                                     t, 1, new_chunks[i].start, new_chunks[i].end)
                     IN  ChunkMetadata(get_line_number(new_chunks[i].start, s),
                                       get_line_number(new_chunks[i].end, s),
                                       extract_symbols(t, s, node),
                                       extract_imports(t, s, node))]

\* The branch of the coalescing pass that appended each chunk chunk_tree
\* returns; "single" for the only chunk of the early return.
chunk_how(t, c, n) ==
    LET chunks == FilterEmpty(chunk_node(t, c, 1).chunks)
    IN  IF Len(chunks) = 0 THEN <<>>
        ELSE IF Len(chunks) < 2 THEN <<"single">>
        ELSE CoalesceHow(c, FillGaps(chunks, n))

\* No split yet.
NoSplit ==
    [status |-> "none", chunks |-> <<>>, texts |-> <<>>, meta |-> <<>>, how |-> <<>>]

\* split_text_with_metadata's test of the parse: the root has no children, or
\* its first child is not an ERROR node.
ParsesOk(t) ==
    LET kids == Children(t, 1)
    IN  Len(kids) = 0 \/ t[kids[1]].type # "ERROR"

(***************************************************************************)
(* The chunker's specification: a buffer and a splitter are chosen, a      *)
(* parse tree is grown node by node, and the buffer is split once.         *)
(***************************************************************************)
Configs ==
    [target_chunk_tokens : 1..MaxTarget,
     max_chunk_tokens : {MaxTarget, MaxTarget + 1},
     enforce_max_chunk_tokens : BOOLEAN,
     coalesce : {0, 1}]

ChunkInit ==
    /\ buflen \in 1..MaxBuf
    /\ source = [i \in 1..buflen |-> "a"]
    /\ \E s \in 0..1 :
          ptree = <<[start |-> Min(s, buflen), end |-> buflen, parent |-> 0, type |-> "module"]>>
    /\ cfg \in Configs
    /\ cres = NoSplit

\* The chunker at rest, for the specifications that do not drive it.
ChunkIdle ==
    /\ buflen = 1
    /\ source = <<"a">>
    /\ ptree = <<[start |-> 0, end |-> 1, parent |-> 0, type |-> "module"]>>
    /\ cfg = [target_chunk_tokens |-> 1, max_chunk_tokens |-> MaxTarget,
              enforce_max_chunk_tokens |-> FALSE, coalesce |-> 0]
    /\ cres = NoSplit

\* The end of the last child of node p, or p's start when it has none.
LastEnd(t, p) ==
    LET kids == Children(t, p)
    IN  IF Len(kids) = 0 THEN t[p].start ELSE t[kids[Len(kids)]].end

\* The parser adds a node to the right of p's children.
AddNode(p, s, e, ty) ==
    /\ cres.status = "none"
    /\ Len(ptree) < MaxNodes
    /\ p \in 1..Len(ptree)
    /\ LastEnd(ptree, p) <= s
    /\ s < e
    /\ e <= ptree[p].end
    /\ ty = "ERROR" => p = 1
    /\ ptree' = Append(ptree, [start |-> s, end |-> e, parent |-> p, type |-> ty])
    /\ UNCHANGED <<buflen, source, cfg, cres>>
    /\ UNCHANGED <<merkleVars, indexVars, watchVars, lifeVars, raceVars>>

\* split_text_with_metadata(text): ValueError on a parse error, else chunk_tree
SplitText ==
    /\ cres.status = "none"
    /\ cres' = IF ParsesOk(ptree)
               THEN LET r == chunk_tree(ptree, cfg, buflen)
                    IN  [status |-> r.status,
                         chunks |-> r.chunks,
                         texts |-> [i \in 1..Len(r.chunks) |->
                                       extract_lines(r.chunks[i], source)],
                         meta |-> IF r.status = "ok"
                                  THEN chunk_metadata(ptree, cfg, source) ELSE <<>>,
                         how |-> IF r.status = "ok"
                                 THEN chunk_how(ptree, cfg, buflen) ELSE <<>>]
               ELSE [NoSplit EXCEPT !.status = "parse_error"]
    /\ UNCHANGED <<ptree, buflen, source, cfg>>
    /\ UNCHANGED <<merkleVars, indexVars, watchVars, lifeVars, raceVars>>

ChunkNext ==
    \/ \E p \in 1..MaxNodes, s \in 0..MaxBuf, e \in 0..MaxBuf, ty \in NodeTypes :
          AddNode(p, s, e, ty)
    \/ SplitText

\* The splitter at its smallest and its largest target, over the texts of
\* up to MaxText bytes and the parse trees of definitions, names and imports.
MetaTypes == {"function_definition", "identifier", "import_statement"}

MetaInit ==
    /\ buflen \in 1..MaxText
    /\ source \in [1..buflen -> Bytes]
    /\ ptree = <<[start |-> 0, end |-> buflen, parent |-> 0, type |-> "module"]>>
    /\ \E target \in {1, MaxTarget} :
          cfg = [target_chunk_tokens |-> target, max_chunk_tokens |-> MaxTarget + 1,
                 enforce_max_chunk_tokens |-> FALSE, coalesce |-> 0]
    /\ cres = NoSplit

MetaNext ==
    \/ \E p \in 1..MaxNodes, s \in 0..MaxBuf, e \in 0..MaxBuf, ty \in MetaTypes :
          AddNode(p, s, e, ty)
    \/ SplitText

(***************************************************************************)
(* The filesystem under the root.  A file path is the sequence of its      *)
(* components relative to the root; a directory exists when a file lies    *)
(* under it.                                                               *)
(***************************************************************************)
\* The file paths of the model, in the order a depth-first walk meets them.
FileOrder ==
    <<<<"a", "c", "w.py">>, <<"a", "x.py">>, <<"a", "y.py">>, <<"b", "z.txt">>, <<"m.py">>>>

FilePaths == {FileOrder[i] : i \in DOMAIN FileOrder}

Absent == 0
Contents == 1..MaxContent

Root == <<>>

IsPrefix(p, q) == Len(p) <= Len(q) /\ SubSeq(q, 1, Len(p)) = p

Prefixes(q) == {SubSeq(q, 1, k) : k \in 0..Len(q)}

Parent(p) == SubSeq(p, 1, Len(p) - 1)

\* os.path.exists / os.path.isfile of a file path
Exists(f, p) == p \in FilePaths /\ f[p] # Absent

\* The files and directories of the filesystem, the root included.
FsNodes(f) == {Root} \cup UNION {Prefixes(p) : p \in {q \in FilePaths : f[q] # Absent}}

\* os.listdir(d): the entries of directory d, in one of the orders the OS may
\* list them in.
NameOrder == <<"a", "b", "c", "m.py", "w.py", "x.py", "y.py", "z.txt">>

ListingOrders == {"asc", "desc"}

Reverse(sq) == [i \in 1..Len(sq) |-> sq[Len(sq) + 1 - i]]

listdir(f, ord, d) ==
    SelectSeq(IF ord = "asc" THEN NameOrder ELSE Reverse(NameOrder),
              LAMBDA n : Append(d, n) \in FsNodes(f))

(***************************************************************************)
(* Hashes.  SHA-256 is taken to be free of collisions: the digest of a     *)
(* byte string is that string between two marks, so that digests are       *)
(* equal exactly when their preimages are, and a concatenation of digests  *)
(* splits back into them in one way only.  A file's bytes are the one-     *)
(* element string of its content.  The hash "" of a new MerkleNode is the  *)
(* empty string.                                                           *)
(***************************************************************************)
sha256(bytes) == <<-1>> \o bytes \o <<-2>>

EmptyHash == <<>>

\* Python's order on strings: element by element, a proper prefix first.
StrLeq(a, b) ==
    LET n == Min(Len(a), Len(b))
        diff == {i \in 1..n : a[i] # b[i]}
    IN  IF diff = {} THEN Len(a) <= Len(b)
        ELSE LET i == CHOOSE k \in diff : \A m \in diff : k <= m
             IN  a[i] < b[i]

\* sorted(): insertion sort of a list of strings
RECURSIVE InsertSorted(_, _)
InsertSorted(sq, x) ==
    IF sq = <<>> THEN <<x>>
    ELSE IF StrLeq(x, Head(sq)) THEN <<x>> \o sq
    ELSE <<Head(sq)>> \o InsertSorted(Tail(sq), x)

RECURSIVE sorted(_)
sorted(sq) == IF sq = <<>> THEN <<>> ELSE InsertSorted(sorted(Tail(sq)), Head(sq))

\* MerkleTree.compute_file_hash, of a file of content c
compute_file_hash(c) == sha256(<<c>>)

\* A directory hash that keeps the children in the order they were listed in.
directory_hash_unsorted(children_hashes) == sha256(join(children_hashes))

\* MerkleTree.compute_directory_hash
compute_directory_hash(children_hashes) == sha256(join(sorted(children_hashes)))

(***************************************************************************)
(* MerkleTree.  The tree is the function from the path of each node (the   *)
(* chain of children keys from the root) to the node's fields.             *)
(***************************************************************************)
MerkleNode(h, isf) == [hash_value |-> h, is_file |-> isf]

\* node.children.keys() of the node at path p
ChildKeys(t, p) == {q \in DOMAIN t : Len(q) = Len(p) + 1 /\ IsPrefix(p, q)}

\* [child.hash_value for child in node.children.values()]
RECURSIVE HashesOf(_, _)
HashesOf(t, S) ==
    IF S = {} THEN <<>>
    ELSE LET q == CHOOSE x \in S : TRUE
         IN  <<t[q].hash_value>> \o HashesOf(t, S \ {q})

ChildHashes(t, p) == HashesOf(t, ChildKeys(t, p))

\* _build_node: the hash of the node built for path p
RECURSIVE BuildHash(_, _, _)
BuildHash(f, ord, p) ==
    IF Exists(f, p) THEN compute_file_hash(f[p])
    ELSE LET items == listdir(f, ord, p)
         IN  compute_directory_hash(
                 [i \in 1..Len(items) |-> BuildHash(f, ord, Append(p, items[i]))])

\* MerkleTree(root_path): a new tree, built over the filesystem
BuildTree(f, ord) ==
    [p \in FsNodes(f) |-> MerkleNode(BuildHash(f, ord, p), Exists(f, p))]

\* _update_parent_hashes(path_parts, self.root): from the first component
\* down, each directory on the path is rehashed from its children.
RECURSIVE UpdateParentHashes(_, _, _)
UpdateParentHashes(t, path_parts, k) ==
    IF k > Len(path_parts) THEN t
    ELSE LET cur == SubSeq(path_parts, 1, k)
         IN  IF cur \notin DOMAIN t THEN t
             ELSE UpdateParentHashes(
                      [t EXCEPT ![cur].hash_value =
                          compute_directory_hash(ChildHashes(t, cur))],
                      path_parts, k + 1)

\* update_file without the test of os.path.exists: the leaf is made and
\* hashed whether the file is there or not.
update_file_unguarded(t, f, p) ==
    LET dirs == Prefixes(Parent(p)) \ {Root}
        withDirs == [q \in DOMAIN t \cup dirs |->
                        IF q \in DOMAIN t THEN t[q] ELSE MerkleNode(EmptyHash, FALSE)]
        withFile == [q \in DOMAIN withDirs \cup {p} |->
                        IF q = p THEN MerkleNode(compute_file_hash(f[p]), TRUE)
                        ELSE withDirs[q]]
    IN  UpdateParentHashes(withFile, Parent(p), 1)

\* MerkleTree.update_file(file_path)
update_file(t, f, p) ==
    IF ~Exists(f, p) THEN t
    ELSE LET dirs == Prefixes(Parent(p)) \ {Root}
             withDirs == [q \in DOMAIN t \cup dirs |->
                             IF q \in DOMAIN t THEN t[q] ELSE MerkleNode(EmptyHash, FALSE)]
             withFile == [q \in DOMAIN withDirs \cup {p} |->
                             IF q = p THEN MerkleNode(compute_file_hash(f[p]), TRUE)
                             ELSE withDirs[q]]
         IN  UpdateParentHashes(withFile, Parent(p), 1)

\* MerkleTree.get_node_hash(file_path): the stored hash, or None
None == <<-3>>

get_node_hash(t, f, p) ==
    IF ~(p \in FsNodes(f)) THEN None
    ELSE IF p \notin DOMAIN t THEN None
    ELSE t[p].hash_value

\* _compare_nodes(path, node1, node2, changes): the paths it appends.  A node
\* missing on one side is MerkleNode(""), with no children.
NodeAt(t, p) == IF p \in DOMAIN t THEN t[p] ELSE MerkleNode(EmptyHash, FALSE)

RECURSIVE compare_nodes(_, _, _)

\* A comparison that descends into a directory whatever its hashes.
compare_nodes_unpruned(p, t1, t2) ==
    IF NodeAt(t1, p).is_file
    THEN IF NodeAt(t1, p).hash_value # NodeAt(t2, p).hash_value THEN {p} ELSE {}
    ELSE UNION {compare_nodes(q, t1, t2) : q \in ChildKeys(t1, p) \cup ChildKeys(t2, p)}

\* MerkleTree._compare_nodes: the paths appended to changes
compare_nodes(p, t1, t2) ==
    IF NodeAt(t1, p).hash_value # NodeAt(t2, p).hash_value
    THEN IF NodeAt(t1, p).is_file THEN {p}
         ELSE UNION {compare_nodes(q, t1, t2) : q \in ChildKeys(t1, p) \cup ChildKeys(t2, p)}
    ELSE {}

\* MerkleTree.get_changes(other_tree)
get_changes(t1, t2) == compare_nodes(Root, t1, t2)

\* _collect_files / get_all_files
RECURSIVE collect_files(_, _)
collect_files(t, p) ==
    IF t[p].is_file THEN {p}
    ELSE UNION {collect_files(t, q) : q \in ChildKeys(t, p)}

get_all_files(t) == collect_files(t, Root)

(***************************************************************************)
(* The Merkle tree's specification: the filesystem changes, trees are      *)
(* built, files are updated and trees are compared.                        *)
(***************************************************************************)
InitialFs ==
    [p \in FilePaths |->
        IF p \in {<<"a", "x.py">>, <<"a", "y.py">>, <<"b", "z.txt">>} THEN 1 ELSE Absent]

\* MerkleTree(root_path) over the files f: __init__ builds the tree.
MerkleAfterBuild(f) ==
    /\ writes = 0
    /\ \E ord \in ListingOrders : tree = BuildTree(f, ord)
    /\ other = tree
    /\ built = tree
    /\ hist = [phase |-> "built", path |-> Root]
    /\ changes = [of |-> "none", out |-> {}]

MerkleInit ==
    /\ fs = InitialFs
    /\ MerkleAfterBuild(fs)

\* A file is written, created or deleted.
WriteFile(p, c) ==
    /\ writes < MaxWrites
    /\ fs[p] # c
    /\ fs' = [fs EXCEPT ![p] = c]
    /\ writes' = writes + 1
    /\ hist' = IF hist.phase = "built" /\ fs[p] # Absent /\ c # Absent
               THEN [phase |-> "changed", path |-> p]
               ELSE [phase |-> "other", path |-> Root]
    /\ UNCHANGED <<tree, other, built, changes>>
    /\ UNCHANGED <<chunkVars, indexVars, watchVars, lifeVars, raceVars>>

\* tree = MerkleTree(root_path)
Build(ord) ==
    /\ tree' = BuildTree(fs, ord)
    /\ built' = tree'
    /\ hist' = [phase |-> "built", path |-> Root]
    /\ changes' = [of |-> "none", out |-> {}]
    /\ UNCHANGED <<fs, writes, other>>
    /\ UNCHANGED <<chunkVars, indexVars, watchVars, lifeVars, raceVars>>

\* other = MerkleTree(root_path)
BuildOther(ord) ==
    /\ other' = BuildTree(fs, ord)
    /\ changes' = [of |-> "none", out |-> {}]
    /\ UNCHANGED <<fs, writes, tree, built, hist>>
    /\ UNCHANGED <<chunkVars, indexVars, watchVars, lifeVars, raceVars>>

\* tree.update_file(p)
UpdateFile(p) ==
    /\ tree' = update_file(tree, fs, p)
    /\ hist' = IF hist = [phase |-> "changed", path |-> p]
               THEN [phase |-> "updated", path |-> p]
               ELSE [phase |-> "other", path |-> Root]
    /\ changes' = [of |-> "none", out |-> {}]
    /\ UNCHANGED <<fs, writes, other, built>>
    /\ UNCHANGED <<chunkVars, indexVars, watchVars, lifeVars, raceVars>>

\* tree.get_changes(other), or other.get_changes(tree)
GetChanges(of) ==
    /\ changes' = [of |-> of,
                   out |-> IF of = "tree" THEN get_changes(tree, other)
                           ELSE get_changes(other, tree)]
    /\ UNCHANGED <<fs, writes, tree, other, built, hist>>
    /\ UNCHANGED <<chunkVars, indexVars, watchVars, lifeVars, raceVars>>

\* os.rename(p, q), q a free name of p's directory
Rename(p, q) ==
    /\ writes < MaxWrites
    /\ Exists(fs, p) /\ ~Exists(fs, q)
    /\ Parent(p) = Parent(q)
    /\ fs' = [fs EXCEPT ![p] = Absent, ![q] = fs[p]]
    /\ writes' = writes + 1
    /\ hist' = [phase |-> "other", path |-> Root]
    /\ UNCHANGED <<tree, other, built, changes>>
    /\ UNCHANGED <<chunkVars, indexVars, watchVars, lifeVars, raceVars>>

\* Two files of one directory exchange their contents.
SwapContents(p, q) ==
    /\ writes < MaxWrites
    /\ Exists(fs, p) /\ Exists(fs, q)
    /\ Parent(p) = Parent(q)
    /\ fs[p] # fs[q]
    /\ fs' = [fs EXCEPT ![p] = fs[q], ![q] = fs[p]]
    /\ writes' = writes + 1
    /\ hist' = [phase |-> "other", path |-> Root]
    /\ UNCHANGED <<tree, other, built, changes>>
    /\ UNCHANGED <<chunkVars, indexVars, watchVars, lifeVars, raceVars>>

RenameNext ==
    \/ \E p \in FilePaths, q \in FilePaths : Rename(p, q)
    \/ \E p \in FilePaths, q \in FilePaths : SwapContents(p, q)
    \/ \E ord \in ListingOrders : Build(ord)
    \/ \E ord \in ListingOrders : BuildOther(ord)
    \/ \E of \in {"tree", "other"} : GetChanges(of)

MerkleNext ==
    \/ \E p \in FilePaths, c \in Contents \cup {Absent} : WriteFile(p, c)
    \/ \E ord \in ListingOrders : Build(ord)
    \/ \E ord \in ListingOrders : BuildOther(ord)
    \/ \E p \in FilePaths : UpdateFile(p)
    \/ \E of \in {"tree", "other"} : GetChanges(of)

(***************************************************************************)
(* HybridCodeSearch.  The language table EXTENSION_TO_TREE_SITTER_LANGUAGE *)
(* maps ".py" to "python"; the parser's result for a file is a function of *)
(* the file's content.                                                     *)
(***************************************************************************)
\* os.path.splitext(file_path)[1] in EXTENSION_TO_TREE_SITTER_LANGUAGE
Recognized(p) == p[Len(p)] \in {"m.py", "x.py", "y.py", "w.py"}

\* CodeSplitter(language): the constructor's defaults
DefaultSplitter ==
    [target_chunk_tokens |-> 300, max_chunk_tokens |-> 1000,
     enforce_max_chunk_tokens |-> FALSE, coalesce |-> 50]

\* parser.parse(text): a file of content c holds c - c \div 3 top-level
\* statements of 240 bytes, each followed by 20 bytes of blank lines and
\* comment-free space; where 3 divides c the first of them is an ERROR node.
Parse(c) ==
    LET n == c - (c \div 3)
    IN  [buflen |-> 260 * n,
         ptree |-> <<[start |-> 0, end |-> 260 * n, parent |-> 0, type |-> "module"]>>
                   \o [i \in 1..n |->
                          [start |-> 260 * (i - 1), end |-> 260 * (i - 1) + 240,
                           parent |-> 1,
                           type |-> IF c % 3 = 0 /\ i = 1 THEN "ERROR" ELSE "stmt"]]]

\* The text of a chunk of a file of content c.
ChunkText(c, sp) == <<c, sp.start, sp.end>>

\* splitter.split_text_with_metadata(content): [status, chunks], the chunks
\* being the chunk texts in order; status "raise" is the ValueError of a
\* parse error.
split_text_with_metadata(c) ==
    LET parsed == Parse(c)
    IN  IF ~ParsesOk(parsed.ptree) THEN [status |-> "raise", chunks |-> <<>>]
        ELSE LET r == chunk_tree(parsed.ptree, DefaultSplitter, parsed.buflen)
             IN  [status |-> r.status,
                  chunks |-> [i \in 1..Len(r.chunks) |-> ChunkText(c, r.chunks[i])]]

\* The point made of one chunk.  id is the key: f"{prefix}_{chunk_idx}", kept
\* as the prefix's components and the chunk's index.
PointStruct(prefix, chunk_idx, p, h, text) ==
    [id |-> [key |-> prefix, n |-> chunk_idx],
     path |-> p, hash |-> h, chunk_text |-> text]

\* client.upsert("code-index", points): insert or replace by id
upsert(st, points) ==
    {pt \in st : \A i \in 1..Len(points) : points[i].id # pt.id}
        \cup {points[i] : i \in 1..Len(points)}

\* A delete by the keys update_index writes, "{relative_path}_{n}".
delete_by_key(st, relative_path) == {pt \in st : pt.id.key # relative_path}

\* client.delete(points_selector = path matches relative_path)
delete(st, relative_path) == {pt \in st : pt.path # relative_path}

\* The points of the chunks of one file, embedding them one by one; the
\* embedding of chunk number failAt raises (none does when failAt is past the
\* last chunk).  [points, raised]
FilePoints(prefix, p, h, chunks, failAt) ==
    [points |-> [i \in 1..Min(Len(chunks), failAt) |->
                    PointStruct(prefix, i - 1, p, h, chunks[i])],
     raised |-> failAt < Len(chunks)]

\* One file of index_files' loop: the points it appends.  A failure (of open,
\* of the splitter, of an embedding) is caught and the loop goes on.
IndexOneFile(t, f, idx, p, fail) ==
    IF ~Recognized(p) THEN <<>>
    ELSE IF ~Exists(f, p) THEN <<>>
    ELSE LET split == split_text_with_metadata(f[p])
         IN  IF split.status # "ok" THEN <<>>
             ELSE FilePoints(<<ToString(idx)>>, p, get_node_hash(t, f, p), split.chunks,
                             IF fail.path = p THEN fail.n ELSE Len(split.chunks)).points

\* index_files(): the files are walked in the tree's order, numbered from 0.
RECURSIVE IndexLoop(_, _, _, _, _)
IndexLoop(t, f, files, i, fail) ==
    IF i > Len(files) THEN <<>>
    ELSE IndexOneFile(t, f, i - 1, files[i], fail) \o IndexLoop(t, f, files, i + 1, fail)

index_files(st, t, f, ord, fail) ==
    LET files == SelectSeq(IF ord = "asc" THEN FileOrder ELSE Reverse(FileOrder),
                           LAMBDA p : p \in get_all_files(t))
        points == IndexLoop(t, f, files, 1, fail)
    IN  IF Len(points) > 0 THEN upsert(st, points) ELSE st

NoFail == [path |-> Root, n |-> 0]

(***************************************************************************)
(* search and _combine_results.  The vector store ranks the points for a   *)
(* query by the two embeddings; the model's store ranks them by a fixed    *)
(* order, the dense channel in it and the sparse channel in it (query      *)
(* "same") or against it (query "opposed").  A score 1/(alpha + r1) +      *)
(* 1/(alpha + r2) is kept as the fraction [num, den].                      *)
(***************************************************************************)
Queries == {"same", "opposed"}

Alpha == 60

Inf == -1

FileIndex(p) == CHOOSE i \in DOMAIN FileOrder : FileOrder[i] = p

PointKey(pt) == (FileIndex(pt.path) * 100 + pt.id.n) * 2 + (IF pt.id.key = pt.path THEN 1 ELSE 0)

RECURSIVE RankAsc(_)
RankAsc(S) ==
    IF S = {} THEN <<>>
    ELSE LET m == CHOOSE x \in S : \A y \in S : PointKey(x) <= PointKey(y)
         IN  <<m>> \o RankAsc(S \ {m})

Take(sq, k) == SubSeq(sq, 1, Min(k, Len(sq)))

\* client.search_batch: the dense request's and the sparse request's results
search_batch(st, q, limit) ==
    [dense |-> Take(RankAsc(st), limit),
     sparse |-> Take(IF q = "same" THEN RankAsc(st) ELSE Reverse(RankAsc(st)), limit)]

IndexOf(sq, x) == CHOOSE i \in 1..Len(sq) : sq[i] = x

InSeq(sq, x) == \E i \in 1..Len(sq) : sq[i] = x

\* A score that takes the mark of an unseen point for a rank.
rrf_score_of_marks(r1, r2) ==
    [num |-> (Alpha + r1) + (Alpha + r2), den |-> (Alpha + r1) * (Alpha + r2)]

\* rrf_score of the ranks r1 and r2 (Inf: unseen in the channel)
rrf_score(r1, r2) ==
    IF r2 = Inf THEN [num |-> 1, den |-> Alpha + r1]
    ELSE IF r1 = Inf THEN [num |-> 1, den |-> Alpha + r2]
    ELSE [num |-> (Alpha + r1) + (Alpha + r2), den |-> (Alpha + r1) * (Alpha + r2)]

ScoreGt(a, b) == a.num * b.den > b.num * a.den

\* sorted(results_with_scores, key = score, reverse = True): stable
RECURSIVE InsertByScore(_, _)
InsertByScore(sq, x) ==
    IF sq = <<>> THEN <<x>>
    ELSE IF ScoreGt(x.score, Head(sq).score) THEN <<x>> \o sq
    ELSE <<Head(sq)>> \o InsertByScore(Tail(sq), x)

RECURSIVE SortByScore(_)
SortByScore(sq) ==
    IF sq = <<>> THEN <<>>
    ELSE InsertByScore(SortByScore(SubSeq(sq, 1, Len(sq) - 1)), sq[Len(sq)])

\* _combine_results(dense_results, sparse_results)
combine_results(dense, sparse) ==
    LET sparseOnly == SelectSeq(sparse, LAMBDA pt : ~InSeq(dense, pt))
        items == dense \o sparseOnly
        scored == [i \in 1..Len(items) |->
                      [result |-> items[i],
                       score |-> rrf_score(
                           IF InSeq(dense, items[i]) THEN IndexOf(dense, items[i]) ELSE Inf,
                           IF InSeq(sparse, items[i]) THEN IndexOf(sparse, items[i]) ELSE Inf)]]
    IN  SortByScore(scored)

\* search(query, limit): the list of {path, score, hash}
search(st, q, limit) ==
    LET found == search_batch(st, q, limit)
        combined == combine_results(found.dense, found.sparse)
    IN  [i \in 1..Len(combined) |->
            [path |-> combined[i].result.path,
             score |-> combined[i].score,
             hash |-> combined[i].result.hash]]

(***************************************************************************)
(* update_index(file_path), in the steps another thread can see between:   *)
(* the Merkle update and the chunking, the delete, and the upsert.         *)
(***************************************************************************)
Idle(last, p) ==
    [pc |-> "idle", path |-> p, last |-> last, chunks |-> <<>>, pre |-> {}, post |-> {}]

PointsOf(st, p) == {pt \in st : pt.path = p}

\* The points update_index makes of the chunks.
NewPoints(t, f, p, chunks, failAt) ==
    FilePoints(p, p, get_node_hash(t, f, p), chunks, failAt)

NotSeen ==
    [results |-> <<>>, limit |-> 0, during |-> FALSE, pts |-> {}, pre |-> {}, post |-> {}]

\* update_index up to the delete: the early returns, the Merkle tree's
\* update, the read and the chunking (which may raise).
UpdateStart(p) ==
    /\ upd.pc = "idle"
    /\ IF ~Exists(fs, p) \/ ~Recognized(p)
       THEN /\ upd' = Idle("returned", Root)
            /\ UNCHANGED tree
       ELSE /\ tree' = update_file(tree, fs, p)
            /\ LET split == split_text_with_metadata(fs[p])
               IN  upd' = IF split.status # "ok" THEN Idle("raised", p)
                          ELSE [pc |-> "chunked", path |-> p, last |-> "none",
                                chunks |-> split.chunks,
                                pre |-> PointsOf(store, p),
                                post |-> {NewPoints(tree', fs, p, split.chunks,
                                                    Len(split.chunks)).points[i] :
                                              i \in 1..Len(split.chunks)}]
    /\ hist' = [phase |-> "other", path |-> Root]
    /\ seen' = NotSeen
    /\ UNCHANGED <<fs, writes, other, built, changes, store, runs>>
    /\ UNCHANGED <<chunkVars, watchVars, lifeVars, raceVars>>

\* client.delete(...), which the store may fail
UpdateDelete(ok) ==
    /\ upd.pc = "chunked"
    /\ IF ok
       THEN /\ store' = delete(store, upd.path)
            /\ upd' = [upd EXCEPT !.pc = "deleted"]
       ELSE /\ upd' = Idle("raised", upd.path)
            /\ UNCHANGED store
    /\ seen' = NotSeen
    /\ UNCHANGED <<merkleVars, runs>>
    /\ UNCHANGED <<chunkVars, watchVars, lifeVars, raceVars>>

\* The embedding of the chunks (that of chunk number failAt raises) and
\* client.upsert(...), which the store may fail.
UpdateUpsert(failAt, ok) ==
    /\ upd.pc = "deleted"
    /\ LET new == NewPoints(tree, fs, upd.path, upd.chunks, failAt)
       IN  IF new.raised \/ ~ok
           THEN /\ upd' = Idle("raised", upd.path)
                /\ UNCHANGED store
           ELSE /\ store' = IF Len(new.points) > 0 THEN upsert(store, new.points)
                            ELSE store
                /\ upd' = [Idle("ok", upd.path) EXCEPT !.chunks = upd.chunks,
                                                        !.pre = upd.pre]
    /\ seen' = NotSeen
    /\ UNCHANGED <<merkleVars, runs>>
    /\ UNCHANGED <<chunkVars, watchVars, lifeVars, raceVars>>

\* index_files(), the embedding of one chunk perhaps failing
IndexFiles(ord, fail) ==
    /\ upd.pc = "idle"
    /\ ~runs
    /\ store' = index_files(store, tree, fs, ord, fail)
    /\ upd' = Idle("none", Root)
    /\ runs' = TRUE
    /\ seen' = NotSeen
    /\ UNCHANGED merkleVars
    /\ UNCHANGED <<chunkVars, watchVars, lifeVars, raceVars>>

\* search(query, limit) on the query thread
Search(q, limit) ==
    /\ seen' = [results |-> search(store, q, limit),
                limit |-> limit,
                during |-> upd.pc # "idle",
                pts |-> IF upd.pc # "idle" THEN PointsOf(store, upd.path) ELSE {},
                pre |-> upd.pre,
                post |-> upd.post]
    /\ UNCHANGED <<merkleVars, store, upd, runs>>
    /\ UNCHANGED <<chunkVars, watchVars, lifeVars, raceVars>>

IndexIdle ==
    /\ store = {}
    /\ upd = Idle("none", Root)
    /\ seen = NotSeen
    /\ runs = FALSE

\* The files the index's runs change, and the embedding failures they meet.
IndexPaths == {<<"a", "x.py">>, <<"m.py">>}

UpdatePaths == IndexPaths \cup {<<"b", "z.txt">>}

IndexFails == {NoFail} \cup {[path |-> <<"a", "x.py">>, n |-> n] : n \in 0..1}

IndexNext ==
    \/ \E p \in IndexPaths, c \in Contents \cup {Absent} : WriteFile(p, c)
    \/ \E ord \in ListingOrders : IndexFiles(ord, NoFail)
    \/ \E p \in UpdatePaths : UpdateStart(p)
    \/ \E ok \in BOOLEAN : UpdateDelete(ok)
    \/ \E failAt \in 0..MaxContent, ok \in BOOLEAN : UpdateUpsert(failAt, ok)

\* The query thread beside one update thread, the files as the watcher's
\* start() found them or as one change left them.
SearchNext ==
    \/ \E ord \in ListingOrders, fail \in IndexFails : IndexFiles(ord, fail)
    \/ \E p \in UpdatePaths : UpdateStart(p)
    \/ \E ok \in BOOLEAN : UpdateDelete(ok)
    \/ \E failAt \in 0..MaxContent, ok \in BOOLEAN : UpdateUpsert(failAt, ok)
    \/ \E q \in Queries, limit \in 1..MaxLimit : Search(q, limit)

(***************************************************************************)
(* CodeIndexEventHandler: the observer thread delivers the events one by   *)
(* one; a handler runs to its end, the flush and its update_index calls    *)
(* included.                                                               *)
(***************************************************************************)
\* self._debounce_delay = 1.0, in seconds and in ticks
DebounceDelaySeconds == 1

debounce_delay == DebounceDelaySeconds * TicksPerSecond

\* The paths events name: two of a recognized extension, one of none.
WatchPaths == IndexPaths \cup {<<"b", "z.txt">>}

\* A handler that takes every file, whatever its extension.
ProcessAnyFile(p) == TRUE

\* _should_process_file(file_path)
should_process_file(p) == Recognized(p)

\* What makes an update_index call raise besides a parse error: the store's
\* delete, or an embedding.
Faults == {"none", "delete", "embed"}

\* update_index after the delete: the chunks are embedded and their points
\* made (new), then upserted into the store st.
UpdateEmbedded(st, t, new) ==
    IF new.raised THEN [store |-> st, tree |-> t, out |-> "raised"]
    ELSE [store |-> IF Len(new.points) > 0 THEN upsert(st, new.points) ELSE st,
          tree |-> t, out |-> "ok"]

\* update_index after the Merkle tree's update (t) and the chunking (split)
UpdateChunked(st, t, f, p, split, fault) ==
    IF split.status # "ok" \/ fault = "delete"
    THEN [store |-> st, tree |-> t, out |-> "raised"]
    ELSE UpdateEmbedded(delete(st, p), t,
                        NewPoints(t, f, p, split.chunks,
                                  IF fault = "embed" THEN 0 ELSE Len(split.chunks)))

\* update_index(file_path) from its call to its return or its exception:
\* [store, tree, out]
update_index(st, t, f, p, fault) ==
    IF ~Exists(f, p) \/ ~Recognized(p)
    THEN [store |-> st, tree |-> t, out |-> "returned"]
    ELSE UpdateChunked(st, update_file(t, f, p), f, p,
                       split_text_with_metadata(f[p]), fault)

\* The orders a set can be iterated in.
Orders(S) ==
    {sq \in [1..Cardinality(S) -> S] : \A a, b \in DOMAIN sq : a # b => sq[a] # sq[b]}

\* _process_updates()'s loop over the pending paths in the order given:
\* [store, tree, invoked, failed], invoked the paths update_index was called
\* for and failed those whose call raised.
RECURSIVE process_updates(_, _, _, _, _, _, _)

\* A loop without the try: the first exception ends it.
ProcessUncaught(r, f, order, faults, k, failed) ==
    IF r.out = "raised"
    THEN [store |-> r.store, tree |-> r.tree,
          invoked |-> {order[i] : i \in 1..(k - 1)}, failed |-> failed \cup {order[k - 1]}]
    ELSE process_updates(r.store, r.tree, f, order, faults, k, failed)

\* The rest of the loop after update_index(order[k - 1]) gave r: an
\* exception is caught and printed, and the loop goes on.
ProcessRest(r, f, order, faults, k, failed) ==
    process_updates(r.store, r.tree, f, order, faults, k,
                    IF r.out = "raised" THEN failed \cup {order[k - 1]} ELSE failed)

process_updates(st, t, f, order, faults, k, failed) ==
    IF k > Len(order)
    THEN [store |-> st, tree |-> t,
          invoked |-> {order[i] : i \in 1..Len(order)}, failed |-> failed]
    ELSE ProcessRest(update_index(st, t, f, order[k], faults[order[k]]),
                     f, order, faults, k + 1, failed)

\* What a flush of the pending paths may leave: any order, any faults.
FlushOutcomes(st, t, f, pending) ==
    {process_updates(st, t, f, order, faults, 1, {}) :
        order \in Orders(pending), faults \in [pending -> Faults]}

\* A handler that flushes on every event.
AlwaysFlush(timer, current_time) == TRUE

\* The condition _schedule_update flushes on, at time current_time
ShouldFlush(timer, current_time) ==
    timer.is_none \/ current_time - timer.t >= debounce_delay

NoTimer == [is_none |-> TRUE, t |-> 0]

\* The last qualifying event did not flush.
NoFlush == [flushed |-> FALSE, pending |-> {}, invoked |-> {}, failed |-> {}]

\* _schedule_update(file_path), the event being of the kind given
ScheduleUpdate(file_path, kind) ==
    LET pending == pending_updates \cup {file_path}
        flush == ShouldFlush(debounce_timer, now)
    IN  /\ IF flush
           THEN /\ \E r \in FlushOutcomes(store, tree, fs, pending) :
                      /\ store' = r.store
                      /\ tree' = r.tree
                      /\ calls' = [p \in WatchPaths |->
                                      IF p \in r.invoked THEN calls[p] + 1 ELSE calls[p]]
                      /\ flushlog' = [flushed |-> TRUE, pending |-> pending,
                                      invoked |-> r.invoked, failed |-> r.failed]
                /\ pending_updates' = {}
                /\ debounce_timer' = [is_none |-> FALSE, t |-> now]
                /\ hist' = [phase |-> "other", path |-> Root]
           ELSE /\ pending_updates' = pending
                /\ flushlog' = NoFlush
                /\ UNCHANGED <<store, tree, calls, debounce_timer, hist>>
        /\ evlog' = [qe |-> evlog.qe + 1,
                     first_path |-> IF evlog.qe = 0 THEN file_path ELSE evlog.first_path,
                     first_t |-> IF evlog.qe = 0 THEN now ELSE evlog.first_t,
                     n |-> IF kind \in {"created", "modified"}
                              /\ (evlog.qe = 0
                                     \/ (evlog.n >= 1 /\ file_path = evlog.first_path))
                           THEN evlog.n + 1 ELSE evlog.n,
                     last_path |-> file_path,
                     last_t |-> now,
                     flushed |-> evlog.any_flush,
                     flush_t |-> evlog.any_flush_t,
                     calls_before |-> calls,
                     any_flush |-> evlog.any_flush \/ flush,
                     any_flush_t |-> IF flush THEN now ELSE evlog.any_flush_t]

\* An event the handler returns from at once: nothing but the count changes.
Ignored ==
    UNCHANGED <<store, tree, calls, debounce_timer, hist, pending_updates, evlog,
                flushlog>>

\* An event is delivered to its handler.
Delivered ==
    /\ events < MaxEvents
    /\ events' = events + 1
    /\ UNCHANGED <<fs, writes, other, built, changes, upd, seen, runs, now>>
    /\ UNCHANGED <<chunkVars, lifeVars, raceVars>>

\* on_created(event)
OnCreated(src_path, is_directory) ==
    /\ Delivered
    /\ IF is_directory THEN Ignored
       ELSE IF should_process_file(src_path) THEN ScheduleUpdate(src_path, "created")
       ELSE Ignored

\* on_modified(event)
OnModified(src_path, is_directory) ==
    /\ Delivered
    /\ IF is_directory THEN Ignored
       ELSE IF should_process_file(src_path) THEN ScheduleUpdate(src_path, "modified")
       ELSE Ignored

\* on_deleted(event): nothing is done
OnDeleted(src_path, is_directory) ==
    /\ Delivered
    /\ IF is_directory THEN Ignored ELSE Ignored

\* on_moved(event): the destination is scheduled
OnMoved(dest_path, is_directory) ==
    /\ Delivered
    /\ IF is_directory THEN Ignored
       ELSE IF should_process_file(dest_path) THEN ScheduleUpdate(dest_path, "moved")
       ELSE Ignored

\* A clock with a timer on it: at the delay after the last flush it flushes
\* what is pending.
TimerTick ==
    /\ now < MaxTime
    /\ now' = now + 1
    /\ IF pending_updates # {} /\ ShouldFlush(debounce_timer, now')
       THEN /\ pending_updates' = {}
            /\ calls' = [p \in WatchPaths |->
                            IF p \in pending_updates THEN calls[p] + 1 ELSE calls[p]]
       ELSE UNCHANGED <<pending_updates, calls>>
    /\ UNCHANGED <<debounce_timer, events, evlog, flushlog>>
    /\ UNCHANGED <<chunkVars, merkleVars, indexVars, lifeVars, raceVars>>

\* Time passes: the next time.time() reads one tick more.  No thread of the
\* watcher waits on the clock.
Tick ==
    /\ now < MaxTime
    /\ now' = now + 1
    /\ UNCHANGED <<pending_updates, debounce_timer, calls, events, evlog, flushlog>>
    /\ UNCHANGED <<chunkVars, merkleVars, indexVars, lifeVars, raceVars>>

\* The log of the qualifying events: how many there were (qe); the path and
\* time of the first; how many creations and modifications of that path
\* there were, the first being one (n); the path and time of the last, with
\* the last flush before it and the calls made before it; the last flush.
NoEvents ==
    [qe |-> 0, first_path |-> Root, first_t |-> 0, n |-> 0,
     last_path |-> Root, last_t |-> 0,
     flushed |-> FALSE, flush_t |-> 0, calls_before |-> [p \in WatchPaths |-> 0],
     any_flush |-> FALSE, any_flush_t |-> 0]

\* CodeIndexEventHandler.__init__
HandlerInit ==
    /\ now = 0
    /\ pending_updates = {}
    /\ debounce_timer = NoTimer
    /\ calls = [p \in WatchPaths |-> 0]
    /\ events = 0
    /\ evlog = NoEvents
    /\ flushlog = NoFlush

\* CodeIndexWatcher(root_path).start() has built the tree and run
\* index_files over the files it found; one file was then written or
\* created, and the observer is about to deliver its first event.
WatcherStarted ==
    /\ \E p \in IndexPaths, c \in Contents : fs = [InitialFs EXCEPT ![p] = c]
    /\ MerkleAfterBuild(InitialFs)
    /\ \E ord \in ListingOrders : store = index_files({}, tree, InitialFs, ord, NoFail)
    /\ upd = Idle("none", Root)
    /\ seen = NotSeen
    /\ runs = TRUE
    /\ HandlerInit

WatchNext ==
    \/ Tick
    \/ \E p \in WatchPaths, d \in BOOLEAN : OnCreated(p, d)
    \/ \E p \in WatchPaths, d \in BOOLEAN : OnModified(p, d)
    \/ \E p \in WatchPaths, d \in BOOLEAN : OnDeleted(p, d)
    \/ \E p \in WatchPaths, d \in BOOLEAN : OnMoved(p, d)

(***************************************************************************)
(* The watcher's lifecycle: watcher.py, class CodeIndexWatcher.  Threads    *)
(* construct the watcher; the main thread starts and stops it, receives     *)
(* signals, leaves the with block and exits the process.                    *)
(***************************************************************************)
MaxStops == 2

Threads == {"main", "worker"}

\* Who calls stop(): the program itself, signal_handler for either signal,
\* the atexit hook, or __exit__.
Callers == {"direct", "SIGINT", "SIGTERM", "atexit", "__exit__"}

Signals == {"SIGINT", "SIGTERM"}

NoStop == [state |-> "none", raised |-> FALSE]

\* The class as its definition leaves it: _instance = None, no thread in
\* CodeIndexWatcher(...), the process running with nothing registered.
LifeIdle ==
    /\ instance = 0
    /\ thr = [t \in Threads |-> [pc |-> "idle", self |-> 0]]
    /\ initialized = FALSE
    /\ inits = 0
    /\ observer = "unset"
    /\ running = "unset"
    /\ handlers = FALSE
    /\ hooks = 0
    /\ proc = [phase |-> "running", left |-> 0, within |-> FALSE]
    /\ stops = [c \in Callers |-> 0]
    /\ stop_log = NoStop

\* Some thread holds the constructed watcher and can call its methods.
Constructed == \E t \in Threads : thr[t].pc = "done"

\* __new__(cls, root_path): the whole body runs under cls._lock.
New(t) ==
    /\ proc.phase = "running"
    /\ thr[t].pc = "idle"
    /\ instance' = IF instance = 0 THEN 1 ELSE instance
    /\ thr' = [thr EXCEPT ![t] = [pc |-> "init", self |-> instance']]
    /\ UNCHANGED <<initialized, inits, observer, running, handlers, hooks, proc,
                   stops, stop_log>>
    /\ UNCHANGED <<chunkVars, merkleVars, indexVars, watchVars, raceVars>>

\* __init__: the test `if not hasattr(self, '_initialized')`, outside the lock.
InitTest(t) ==
    /\ proc.phase = "running"
    /\ thr[t].pc = "init"
    /\ IF initialized
       THEN /\ thr' = [thr EXCEPT ![t].pc = "done"]
            /\ UNCHANGED inits
       ELSE /\ thr' = [thr EXCEPT ![t].pc = "body"]
            /\ inits' = inits + 1
    /\ UNCHANGED <<instance, initialized, observer, running, handlers, hooks, proc,
                   stops, stop_log>>
    /\ UNCHANGED <<chunkVars, merkleVars, indexVars, watchVars, raceVars>>

\* __init__: root_path, searcher = HybridCodeSearch(root_path), which builds
\* its MerkleTree, event_handler, observer = Observer(), _initialized = True.
InitAttrs(t, ord) ==
    /\ proc.phase = "running"
    /\ thr[t].pc = "body"
    /\ tree' = BuildTree(fs, ord)
    /\ built' = tree'
    /\ hist' = [phase |-> "built", path |-> Root]
    /\ changes' = [of |-> "none", out |-> {}]
    /\ observer' = "new"
    /\ initialized' = TRUE
    /\ thr' = [thr EXCEPT ![t].pc = "hooks"]
    /\ UNCHANGED <<instance, inits, running, handlers, hooks, proc, stops, stop_log>>
    /\ UNCHANGED <<fs, writes, other>>
    /\ UNCHANGED <<chunkVars, indexVars, watchVars, raceVars>>

\* __init__: _running = False, _setup_signal_handlers(), atexit.register(self.stop)
InitHooks(t) ==
    /\ proc.phase = "running"
    /\ thr[t].pc = "hooks"
    /\ running' = FALSE
    /\ handlers' = TRUE
    /\ hooks' = hooks + 1
    /\ thr' = [thr EXCEPT ![t].pc = "done"]
    /\ UNCHANGED <<instance, initialized, inits, observer, proc, stops, stop_log>>
    /\ UNCHANGED <<chunkVars, merkleVars, indexVars, watchVars, raceVars>>

\* start(), called as such or by __enter__ (ctx): index_files(), then
\* observer.schedule, observer.start, _running = True.  The program starts
\* its watcher once.
Start(ctx, ord) ==
    /\ proc.phase = "running"
    /\ Constructed
    /\ observer = "new"
    /\ ~runs
    /\ store' = index_files(store, tree, fs, ord, NoFail)
    /\ upd' = Idle("none", Root)
    /\ runs' = TRUE
    /\ seen' = NotSeen
    /\ observer' = "started"
    /\ running' = TRUE
    /\ proc' = [proc EXCEPT !.within = ctx]
    /\ UNCHANGED <<instance, thr, initialized, inits, handlers, hooks, stops, stop_log>>
    /\ UNCHANGED <<chunkVars, merkleVars, watchVars, raceVars>>

\* The lifecycle state stop() meets.
LifeState ==
    IF observer = "new" THEN "never started"
    ELSE IF observer = "started" THEN "started" ELSE "stopped"

\* Observer.join() is threading.Thread.join(): it raises RuntimeError on a
\* thread that was never started.
JoinRaises(o) == o = "new"

\* stop(): observer.stop(); observer.join(); print; _running = False.
stop(caller) ==
    /\ stops' = [stops EXCEPT ![caller] = @ + 1]
    /\ observer' = IF observer = "started" THEN "stopped" ELSE observer
    /\ running' = IF JoinRaises(observer) THEN running ELSE FALSE
    /\ stop_log' = [state |-> LifeState, raised |-> JoinRaises(observer)]
    /\ UNCHANGED <<instance, thr, initialized, inits, handlers, hooks>>
    /\ UNCHANGED <<chunkVars, merkleVars, indexVars, watchVars, raceVars>>

\* The program calls watcher.stop().
Stop ==
    /\ proc.phase = "running"
    /\ Constructed
    /\ stops["direct"] < MaxStops
    /\ stop("direct")
    /\ UNCHANGED proc

\* SIGINT or SIGTERM arrives: signal_handler(signum, frame) calls self.stop()
\* and returns; the process goes on.
Signal(sig) ==
    /\ proc.phase = "running"
    /\ handlers
    /\ stops[sig] < MaxStops
    /\ stop(sig)
    /\ UNCHANGED proc

\* __exit__(exc_type, exc_val, exc_tb) at the end of the with block.
Exit ==
    /\ proc.phase = "running"
    /\ proc.within
    /\ stop("__exit__")
    /\ proc' = [proc EXCEPT !.within = FALSE]

\* The process exits: the interpreter runs what atexit.register collected.
ProcessExit ==
    /\ proc.phase = "running"
    /\ proc' = [proc EXCEPT !.phase = IF hooks = 0 THEN "exited" ELSE "exiting",
                            !.left = hooks]
    /\ UNCHANGED <<instance, thr, initialized, inits, observer, running, handlers,
                   hooks, stops, stop_log>>
    /\ UNCHANGED <<chunkVars, merkleVars, indexVars, watchVars, raceVars>>

\* One registered hook runs: self.stop().  An exception in a hook is
\* printed and the remaining hooks still run.
AtExit ==
    /\ proc.phase = "exiting"
    /\ proc.left > 0
    /\ stop("atexit")
    /\ proc' = [proc EXCEPT !.phase = IF proc.left = 1 THEN "exited" ELSE "exiting",
                            !.left = proc.left - 1]

LifeNext ==
    \/ \E t \in Threads : New(t)
    \/ \E t \in Threads : InitTest(t)
    \/ \E t \in Threads, ord \in ListingOrders : InitAttrs(t, ord)
    \/ \E t \in Threads : InitHooks(t)
    \/ \E ctx \in BOOLEAN, ord \in ListingOrders : Start(ctx, ord)
    \/ Stop
    \/ \E sig \in Signals : Signal(sig)
    \/ Exit
    \/ ProcessExit
    \/ AtExit

(***************************************************************************)
(* The pending set under two threads: the observer's thread delivers the   *)
(* events, and so runs _schedule_update, while another thread calls        *)
(* process_pending_updates().  Neither takes a lock; a step here is what   *)
(* one thread does between two points another thread can run at.           *)
(***************************************************************************)
FlushThreads == {"observer", "caller"}

\* How many qualifying events the observer delivers here.
MaxAdds == 2

\* A thread outside the handler's code
AtIdle == [pc |-> "idle", t |-> 0, size |-> 0, done |-> {}, raised |-> FALSE]

RaceIdle ==
    /\ at = [th \in FlushThreads |-> AtIdle]
    /\ unpassed = {}
    /\ dropped = {}

\* What a step on the pending set leaves alone.
RaceFrame ==
    /\ UNCHANGED <<fs, writes, other, built, changes, upd, seen, runs, evlog, flushlog>>
    /\ UNCHANGED <<chunkVars, lifeVars>>

\* `for file_path in self.pending_updates`: the iterator is made; it
\* remembers the size of the set.
EnterLoop(th, current_time) ==
    at' = [at EXCEPT ![th] = [pc |-> "loop", t |-> current_time,
                              size |-> Cardinality(pending_updates),
                              done |-> {}, raised |-> FALSE]]

\* _schedule_update(file_path), its first two lines: the path is added and
\* the time read.
ScheduleAdd(file_path) ==
    /\ at["observer"].pc = "idle"
    /\ events < MaxAdds
    /\ should_process_file(file_path)
    /\ events' = events + 1
    /\ pending_updates' = pending_updates \cup {file_path}
    /\ unpassed' = IF file_path \in pending_updates THEN unpassed
                   ELSE unpassed \cup {file_path}
    /\ at' = [at EXCEPT !["observer"] = [AtIdle EXCEPT !.pc = "test", !.t = now]]
    /\ UNCHANGED <<store, tree, hist, calls, debounce_timer, now, dropped>>
    /\ RaceFrame

\* _schedule_update's test of the timer: _process_updates() is entered or
\* the method returns.
ScheduleTest ==
    /\ at["observer"].pc = "test"
    /\ IF ShouldFlush(debounce_timer, at["observer"].t)
       THEN EnterLoop("observer", at["observer"].t)
       ELSE at' = [at EXCEPT !["observer"] = AtIdle]
    /\ UNCHANGED <<store, tree, hist, calls, debounce_timer, now, events,
                   pending_updates, unpassed, dropped>>
    /\ RaceFrame

\* CodeIndexWatcher.process_pending_updates(): _process_updates() is entered.
process_pending_updates ==
    /\ at["caller"].pc = "idle"
    /\ EnterLoop("caller", now)
    /\ UNCHANGED <<store, tree, hist, calls, debounce_timer, now, events,
                   pending_updates, unpassed, dropped>>
    /\ RaceFrame

\* One turn of _process_updates' loop: the iterator raises RuntimeError if
\* the set's size changed since it was made, ends the loop if nothing is
\* left, and else yields a path, which is passed to update_index.
ProcessLoop(th) ==
    /\ at[th].pc = "loop"
    /\ IF Cardinality(pending_updates) # at[th].size
       THEN /\ at' = [at EXCEPT ![th] = [AtIdle EXCEPT !.raised = TRUE]]
            /\ UNCHANGED <<store, tree, hist, calls, unpassed>>
       ELSE IF pending_updates \ at[th].done = {}
       THEN /\ at' = [at EXCEPT ![th].pc = "clear"]
            /\ UNCHANGED <<store, tree, hist, calls, unpassed>>
       ELSE \E file_path \in pending_updates \ at[th].done, fault \in Faults :
               LET r == update_index(store, tree, fs, file_path, fault)
               IN  /\ store' = r.store
                   /\ tree' = r.tree
                   /\ hist' = [phase |-> "other", path |-> Root]
                   /\ calls' = [calls EXCEPT ![file_path] = calls[file_path] + 1]
                   /\ unpassed' = unpassed \ {file_path}
                   /\ at' = [at EXCEPT ![th].done = at[th].done \cup {file_path}]
    /\ UNCHANGED <<debounce_timer, now, events, pending_updates, dropped>>
    /\ RaceFrame

\* self.pending_updates.clear(), after the loop
ProcessClear(th) ==
    /\ at[th].pc = "clear"
    /\ pending_updates' = {}
    /\ dropped' = dropped \cup (unpassed \cap pending_updates)
    /\ unpassed' = {}
    /\ at' = [at EXCEPT ![th] = IF th = "observer" THEN [at[th] EXCEPT !.pc = "stamp"]
                                ELSE AtIdle]
    /\ UNCHANGED <<store, tree, hist, calls, debounce_timer, now, events>>
    /\ RaceFrame

\* self._debounce_timer = current_time, the last line of _schedule_update
ScheduleStamp ==
    /\ at["observer"].pc = "stamp"
    /\ debounce_timer' = [is_none |-> FALSE, t |-> at["observer"].t]
    /\ at' = [at EXCEPT !["observer"] = AtIdle]
    /\ UNCHANGED <<store, tree, hist, calls, now, events, pending_updates,
                   unpassed, dropped>>
    /\ RaceFrame

RaceNext ==
    \/ \E p \in WatchPaths : ScheduleAdd(p)
    \/ ScheduleTest
    \/ process_pending_updates
    \/ \E th \in FlushThreads : ProcessLoop(th)
    \/ \E th \in FlushThreads : ProcessClear(th)
    \/ ScheduleStamp
    \/ Tick

(***************************************************************************)
(* Specifications.                                                         *)
(***************************************************************************)
InitChunk == ChunkInit /\ MerkleInit /\ IndexIdle /\ HandlerInit /\ LifeIdle /\ RaceIdle

SpecChunk == InitChunk /\ [][ChunkNext]_vars

InitMeta == MetaInit /\ MerkleInit /\ IndexIdle /\ HandlerInit /\ LifeIdle /\ RaceIdle

SpecMeta == InitMeta /\ [][MetaNext]_vars

InitMerkle == ChunkIdle /\ MerkleInit /\ IndexIdle /\ HandlerInit /\ LifeIdle /\ RaceIdle

SpecMerkle == InitMerkle /\ [][MerkleNext]_vars

InitIndex == ChunkIdle /\ MerkleInit /\ IndexIdle /\ HandlerInit /\ LifeIdle /\ RaceIdle

SpecIndex == InitIndex /\ [][IndexNext]_vars

InitSearch ==
    /\ ChunkIdle /\ IndexIdle /\ HandlerInit /\ LifeIdle /\ RaceIdle
    /\ \E p \in IndexPaths, c \in Contents :
          /\ fs = [InitialFs EXCEPT ![p] = c]
          /\ MerkleAfterBuild(fs)

SpecSearch == InitSearch /\ [][SearchNext]_vars

InitWatch == ChunkIdle /\ WatcherStarted /\ LifeIdle /\ RaceIdle

SpecWatch == InitWatch /\ [][WatchNext]_vars

\* Trees built, in either listing order, over the files as writes leave them.
BuildNext ==
    \/ \E p \in IndexPaths, c \in Contents \cup {Absent} : WriteFile(p, c)
    \/ \E ord \in ListingOrders : Build(ord)
    \/ \E ord \in ListingOrders : BuildOther(ord)

InitBuild == ChunkIdle /\ MerkleInit /\ IndexIdle /\ HandlerInit /\ LifeIdle /\ RaceIdle

SpecBuild == InitBuild /\ [][BuildNext]_vars

\* The watcher started, its handler about to get its first event while
\* another thread is free to call process_pending_updates().
InitRace == ChunkIdle /\ WatcherStarted /\ LifeIdle /\ RaceIdle

SpecRace == InitRace /\ [][RaceNext]_vars

\* Trees built before and after files are renamed within their directory
\* or exchange their contents.
InitRename ==
    /\ ChunkIdle /\ IndexIdle /\ HandlerInit /\ LifeIdle /\ RaceIdle
    /\ \E cx \in Contents \cup {Absent}, cy \in Contents \cup {Absent} :
          fs = [InitialFs EXCEPT ![<<"a", "x.py">>] = cx, ![<<"a", "y.py">>] = cy]
    /\ MerkleAfterBuild(fs)

SpecRename == InitRename /\ [][RenameNext]_vars

\* The process from its start: the files as they are, nothing constructed.
InitLife == ChunkIdle /\ MerkleInit /\ IndexIdle /\ HandlerInit /\ LifeIdle /\ RaceIdle

SpecLife == InitLife /\ [][LifeNext]_vars

(***************************************************************************)
(* Claims about the chunker.                                               *)
(***************************************************************************)
\* The spans of a returned chunk list, empty spans ignored, are contiguous,
\* start at 0 and end at n.
IsPartition(chunks, n) ==
    LET ne == FilterEmpty(chunks)
    IN  /\ Len(ne) >= 1
        /\ ne[1].start = 0
        /\ \A i \in 1..(Len(ne) - 1) : ne[i].end = ne[i + 1].start
        /\ ne[Len(ne)].end = n

\* C1: for a non-empty buffer that parses without error, the spans chunk_tree
\* returns, in order and ignoring empty spans, are contiguous and
\* non-overlapping and cover exactly [0, len(buffer)).
C1_Partition ==
    (cres.status = "ok" /\ buflen > 0) => IsPartition(cres.chunks, buflen)

\* C16: with enforce_max_chunk_tokens true, when the split returns without
\* MaxChunkLengthExceededError, every returned chunk (its final span, after
\* gap filling and coalescing) has at most max_chunk_tokens tokens.
C16_MaxChunkBudget ==
    (cres.status = "ok" /\ cfg.enforce_max_chunk_tokens) =>
        \A i \in 1..Len(cres.chunks) :
            count_chunk(cres.chunks[i]) <= cfg.max_chunk_tokens

C18_SingleChunkMetadata ==
    (cres.status = "ok" /\ Len(cres.chunks) = 1) =>
        /\ cres.meta[1].symbols = extract_symbols(ptree, source, 1)
        /\ cres.meta[1].imports = extract_imports(ptree, source, 1)

\* The 0-indexed line of s that holds byte index: the newlines before it.
LineOf(index, s) == Cardinality({j \in 1..index : s[j] = Newline})

\* C26: each non-empty chunk's metadata has as start_line the 0-indexed line
\* holding the chunk's first byte and as end_line the 0-indexed line holding
\* its last byte, also for the chunk ending at the end of the buffer and for
\* a sole chunk.
C26_MetadataLines ==
    cres.status = "ok" =>
        \A i \in 1..Len(cres.chunks) :
            cres.chunks[i].start < cres.chunks[i].end =>
                /\ cres.meta[i].start_line = LineOf(cres.chunks[i].start, source)
                /\ cres.meta[i].end_line = LineOf(cres.chunks[i].end - 1, source)

\* C19: for a file that parses and whose chunks' spans cover it end to end,
\* each chunk text split_text_with_metadata returns is the content of that
\* chunk's byte span, and the texts concatenated equal the file's text.
C19_TextsAreSpans ==
    (cres.status = "ok" /\ IsPartition(cres.chunks, buflen)) =>
        /\ \A i \in 1..Len(cres.chunks) :
              cres.texts[i] = extract(cres.chunks[i], source)
        /\ join(cres.texts) = source

(***************************************************************************)
(* Claims about the Merkle tree.                                           *)
(***************************************************************************)
\* The directory nodes of a tree, the root included.
DirNodes(t) == {p \in DOMAIN t : ~t[p].is_file}

\* The file nodes of a tree.
FileNodes(t) == {p \in DOMAIN t : t[p].is_file}

\* C2: after build() and after any sequence of update_file calls, every
\* directory node, the root included, stores the directory-hash of the hashes
\* its children store.
C2_DirHashInvariant ==
    \A p \in DirNodes(tree) :
        tree[p].hash_value = compute_directory_hash(ChildHashes(tree, p))

\* C3: build(), a change of the content of file p, then update_file(p) leave
\* the tree with the root hash of a fresh build over the changed filesystem.
C3_IncrementalEquivalence ==
    hist.phase = "updated" =>
        \A ord \in ListingOrders :
            tree[Root].hash_value = BuildTree(fs, ord)[Root].hash_value

\* C4: build(), a change of the content of file p, then update_file(p) change
\* the stored hash of every ancestor directory of p, the root's included, and
\* leave every node off the path from the root to p as it was.
C4_UpdateFrame ==
    hist.phase = "updated" =>
        /\ \A q \in Prefixes(Parent(hist.path)) :
               tree[q].hash_value # built[q].hash_value
        /\ \A q \in DOMAIN built \ Prefixes(hist.path) :
               q \in DOMAIN tree /\ tree[q] = built[q]

\* The paths get_changes is to return for trees a and b: the files whose
\* contents differ and the files only one of the two trees holds.
ExpectedChanges(a, b) ==
    {p \in FileNodes(a) \cap FileNodes(b) : a[p].hash_value # b[p].hash_value}
        \cup (FileNodes(a) \ FileNodes(b))
        \cup (FileNodes(b) \ FileNodes(a))

\* C5: A.get_changes(B) returns exactly the paths of the files whose contents
\* differ between A and B and of the files only one of them holds.
C5_DiffMinimality ==
    /\ changes.of = "tree" => changes.out = ExpectedChanges(tree, other)
    /\ changes.of = "other" => changes.out = ExpectedChanges(other, tree)

(***************************************************************************)
(* Claims about the hybrid index.                                          *)
(***************************************************************************)
\* update_index(upd.path) has returned after its upsert.
UpdateCompleted == upd.pc = "idle" /\ upd.last = "ok"

\* C6: after update_index(path) completes, the store holds for the file
\* exactly one point per chunk of the new chunking, the point of chunk n
\* keyed "{path}_{n}", and no other point of the file: none that index_files
\* wrote under a numeric key, none of an earlier update_index.
C6_NoStalePoints ==
    UpdateCompleted =>
        LET pts == PointsOf(store, upd.path)
        IN  /\ Cardinality(pts) = Len(upd.chunks)
            /\ \A i \in 1..Len(upd.chunks) :
                   \E pt \in pts : /\ pt.id = [key |-> upd.path, n |-> i - 1]
                                   /\ pt.chunk_text = upd.chunks[i]
            /\ \A pt \in pts : pt.id.key = upd.path

\* C6's case: the update completed for a file that index_files had indexed
\* under numeric keys, in more chunks than the file has now.
C6_Witness ==
    /\ UpdateCompleted
    /\ Len(upd.chunks) >= 1
    /\ Cardinality(upd.pre) > Len(upd.chunks)
    /\ \A pt \in upd.pre : pt.id.key # upd.path

\* C7: after every update_index(path) call, whether it completes or raises,
\* the hash of every point stored for the file is the hash the Merkle tree
\* stores for the file.
C7_TreeIndexConsistent ==
    (upd.pc = "idle" /\ upd.last \in {"ok", "raised"}) =>
        \A pt \in PointsOf(store, upd.path) :
            /\ upd.path \in DOMAIN tree
            /\ pt.hash = tree[upd.path].hash_value

\* C8: a search made while update_index(path) is in flight sees, of the
\* file's points, all those it had before the update or all those it has
\* after it.
C8_SearchSeesPreOrPost ==
    seen.during => seen.pts \in {seen.pre, seen.post}

(***************************************************************************)
(* Claims about the watcher.                                               *)
(***************************************************************************)
\* Every qualifying event so far arrived less than the delay after the first.
InFirstWindow == evlog.last_t - evlog.first_t < debounce_delay

\* C9: the first qualifying event the handler gets being a creation or a
\* modification of a path, as long as every event since arrived less than
\* the debounce delay after it, update_index was invoked exactly once for
\* the path, however many creations and modifications of it there were.
C9_DebounceCoalescing ==
    (evlog.n >= 1 /\ InFirstWindow) => calls[evlog.first_path] = 1

\* C9's case: three creations or modifications of one path, not all at the
\* same tick, all within the first window.
C9_Witness ==
    /\ evlog.n >= 3
    /\ InFirstWindow
    /\ evlog.last_t > evlog.first_t

\* The last qualifying event arrived less than the delay after a flush.
LastEventInWindow ==
    /\ evlog.qe >= 1
    /\ evlog.flushed
    /\ evlog.last_t - evlog.flush_t < debounce_delay

C14_BuildDeterminism ==
    hist.phase = "built" =>
        \A ord \in ListingOrders :
            BuildTree(fs, ord)[Root].hash_value = tree[Root].hash_value

\* A tree rebuilt after a change, over a directory whose two files differ, so
\* that the listing order decides the order of unequal child hashes.
C14_Witness ==
    /\ hist.phase = "built"
    /\ writes >= 1
    /\ Exists(fs, <<"a", "x.py">>) /\ Exists(fs, <<"a", "y.py">>)
    /\ fs[<<"a", "x.py">>] # fs[<<"a", "y.py">>]
    /\ listdir(fs, "asc", <<"a">>) # listdir(fs, "desc", <<"a">>)

\* C15: a call of build() or update_file(path) that changes the tree leaves
\* get_all_files() equal to the set of regular files under the root at the
\* time of the call.
C15_FileSetTracksFs ==
    [][tree' # tree =>
          get_all_files(tree') = {p \in FilePaths : fs'[p] # Absent}]_vars

\* C17: search(query, k) returns at most k results, in non-increasing order
\* of fused RRF score.
C17_TopK ==
    seen.limit >= 1 =>
        /\ Len(seen.results) <= seen.limit
        /\ \A i \in 1..(Len(seen.results) - 1) :
              ~ScoreGt(seen.results[i + 1].score, seen.results[i].score)

\* C20: when index_files has run, a file whose processing failed
\* contributes no points and every chunk of every other recognized file is in
\* the store: each recognized file of the tree has either all of its chunks'
\* points there or none.
C20_FailedFileSkipped ==
    (runs /\ upd = Idle("none", Root)) =>
        \A p \in get_all_files(tree) :
            (Recognized(p) /\ Exists(fs, p)) =>
                LET split == split_text_with_metadata(fs[p])
                    n == Cardinality(PointsOf(store, p))
                IN  n = 0 \/ (split.status = "ok" /\ n = Len(split.chunks))

(***************************************************************************)
(* Claims about the watcher's lifecycle.                                    *)
(***************************************************************************)
\* C11: the watcher is a singleton: every construction returns the first
\* instance, and the initialization in __init__ runs once per process, also
\* when two threads construct the watcher at the same time.
C11_Singleton ==
    /\ \A t \in Threads : thr[t].pc # "idle" => thr[t].self = 1
    /\ inits <= 1

\* How many times stop() ran for a signal, the exit of the with block or
\* the exit of the process.
TriggeredStops ==
    stops["SIGINT"] + stops["SIGTERM"] + stops["atexit"] + stops["__exit__"]

\* C12: in a run of a watcher that was initialized once, registered its
\* hook and was started, and that the program never stops itself, the body
\* of stop() is executed at most once over SIGINT, SIGTERM, the exit of the
\* with block and the exit of the process, and exactly once when the
\* process has exited.
C12_StopOnce ==
    (inits = 1 /\ hooks = 1 /\ runs /\ stops["direct"] = 0) =>
        /\ TriggeredStops <= 1
        /\ proc.phase = "exited" => TriggeredStops = 1

\* C13: stop() completes without error in every lifecycle state (never
\* started, started, already stopped) and leaves the watcher stopped.
C13_StopIdempotent ==
    stop_log.state # "none" =>
        /\ ~stop_log.raised
        /\ running = FALSE


(***************************************************************************)
(* Claims about the watcher's flush and its events.                        *)
(***************************************************************************)
\* C21: when update_index raised for a pending path during the flush the
\* last qualifying event made, update_index was still invoked for every
\* pending path, the pending set is empty, and the timer holds the time of
\* that event: the handler returned as from a flush without failure.
C21_FlushSwallowsFailure ==
    (flushlog.flushed /\ flushlog.failed # {}) =>
        /\ flushlog.invoked = flushlog.pending
        /\ pending_updates = {}
        /\ debounce_timer = [is_none |-> FALSE, t |-> evlog.last_t]

\* A flush of two pending paths in which the call for exactly one raised.
C21_Witness ==
    /\ flushlog.flushed
    /\ Cardinality(flushlog.pending) = 2
    /\ Cardinality(flushlog.failed) = 1
    /\ flushlog.invoked = flushlog.pending
    /\ pending_updates = {}

\* An event of a directory, or of a file whose extension is not in the
\* language table, or a delete event, is delivered in this step.
FilteredEvent ==
    \E p \in WatchPaths, d \in BOOLEAN :
        \/ OnDeleted(p, d)
        \/ (d \/ ~Recognized(p)) /\ (OnCreated(p, d) \/ OnModified(p, d) \/ OnMoved(p, d))

\* C22: a directory event, an event of a file whose extension is not in the
\* language table, and a delete event invoke no update_index and leave the
\* pending set, the timer, the Merkle tree and the store unchanged.
C22_FilteredEventFrame ==
    [][FilteredEvent =>
          UNCHANGED <<calls, pending_updates, debounce_timer, tree, store>>]_vars

\* Such an event was delivered while a path was pending: three events, two
\* of them qualifying.
C22_Witness ==
    /\ events = 3
    /\ evlog.qe = 2
    /\ pending_updates # {}

(***************************************************************************)
(* Further claims about the Merkle tree and the index.                     *)
(***************************************************************************)
\* C23: update_index(path) for a path that does not exist leaves the Merkle
\* tree's nodes and hashes and the store's points unchanged, and so does the
\* tree's own update_file(path).
C23_MissingPathNoOp ==
    [][\A p \in UpdatePaths :
          (~Exists(fs, p) /\ UpdateStart(p)) =>
              /\ UNCHANGED <<tree, store>>
              /\ update_file(tree, fs, p) = tree
              /\ upd'.pc = "idle"]_vars

\* update_index has returned at once while a file that the tree and the
\* store still hold is gone, and no other file is missing.
C23_Witness ==
    /\ upd = Idle("returned", Root)
    /\ ~Exists(fs, <<"a", "x.py">>)
    /\ <<"a", "x.py">> \in DOMAIN tree
    /\ PointsOf(store, <<"a", "x.py">>) # {}

\* The ranks a channel gives within the limits searched with, and Inf.
Ranks == (1..(2 * MaxLimit + 1)) \cup {Inf}

\* r is as good a rank as q or a better one; unseen is the worst.
RankLeq(r, q) == q = Inf \/ (r # Inf /\ r <= q)

\* The rank of point x in a channel's results
RankIn(sq, x) == IF InSeq(sq, x) THEN IndexOf(sq, x) ELSE Inf

\* C25: the fused score never increases when a channel's rank grows, the
\* other rank fixed or growing too, a point unseen in a channel having the
\* largest rank there and contribution 0 from it; and among the results of
\* any search of the store, a point ranked no better than another in both
\* channels scores no higher.
C25_RRFMonotone ==
    /\ \A d1 \in Ranks, d2 \in Ranks, s1 \in Ranks, s2 \in Ranks :
          (RankLeq(d1, d2) /\ RankLeq(s1, s2) /\ ~(d2 = Inf /\ s2 = Inf)) =>
              ~ScoreGt(rrf_score(d2, s2), rrf_score(d1, s1))
    /\ \A r \in Ranks \ {Inf} :
          /\ rrf_score(r, Inf) = [num |-> 1, den |-> Alpha + r]
          /\ rrf_score(Inf, r) = [num |-> 1, den |-> Alpha + r]
    /\ \A q \in Queries, limit \in 1..MaxLimit :
          LET found == search_batch(store, q, limit)
              res == combine_results(found.dense, found.sparse)
          IN  \A i \in 1..Len(res), j \in 1..Len(res) :
                  (/\ RankLeq(RankIn(found.dense, res[i].result),
                              RankIn(found.dense, res[j].result))
                   /\ RankLeq(RankIn(found.sparse, res[i].result),
                              RankIn(found.sparse, res[j].result))) =>
                      ~ScoreGt(res[j].score, res[i].score)

\* A search returned two points, each the first of one channel and unseen
\* in the other, with the score of the one rank alone.
C25_Witness ==
    /\ seen.limit >= 1
    /\ Len(seen.results) = 2
    /\ seen.results[1].score = [num |-> 1, den |-> Alpha + 1]
    /\ seen.results[2].score = [num |-> 1, den |-> Alpha + 1]

\* C27: no path is removed from the handler's pending set without having
\* been passed to update_index since it was added, also when
\* process_pending_updates() runs on a thread of its own.
C27_NoLostUpdate == dropped = {}

\* The hashes of the children of directory d, each with the number of
\* children that have it.
ChildHashBag(t, d) ==
    [h \in {t[q].hash_value : q \in ChildKeys(t, d)} |->
        Cardinality({q \in ChildKeys(t, d) : t[q].hash_value = h})]

\* C28: two directories whose children have the same hashes as many times
\* each have the same hash, whatever the children's names; and between trees
\* built before and after files were renamed within their directory or
\* exchanged their contents, every directory keeps its hash, the root too,
\* and get_changes returns no path, in either direction.
C28_NamesNotHashed ==
    /\ \A d \in DOMAIN tree \cap DOMAIN other :
          (/\ ~tree[d].is_file /\ ~other[d].is_file
           /\ ChildHashBag(tree, d) = ChildHashBag(other, d)) =>
              tree[d].hash_value = other[d].hash_value
    /\ \A d \in DOMAIN tree \cap DOMAIN other :
          ~tree[d].is_file => tree[d].hash_value = other[d].hash_value
    /\ tree[Root].hash_value = other[Root].hash_value
    /\ get_changes(tree, other) = {}
    /\ get_changes(other, tree) = {}
    /\ changes.out = {}

\* get_changes ran between a tree built before and one built after a/x.py
\* and a/y.py exchanged their contents.
C28_Witness ==
    /\ changes.of = "tree"
    /\ DOMAIN tree = DOMAIN other
    /\ {<<"a", "x.py">>, <<"a", "y.py">>} \subseteq DOMAIN tree
    /\ tree[<<"a", "x.py">>].hash_value # other[<<"a", "x.py">>].hash_value
    /\ tree[<<"a", "x.py">>].hash_value = other[<<"a", "y.py">>].hash_value

\* get_changes ran between a tree built before and one built after a/x.py
\* was renamed a/y.py.
C28_Renamed ==
    /\ changes.of = "tree"
    /\ <<"a", "x.py">> \in DOMAIN tree /\ <<"a", "x.py">> \notin DOMAIN other
    /\ <<"a", "y.py">> \notin DOMAIN tree /\ <<"a", "y.py">> \in DOMAIN other

====
